---- MODULE Spec2Model ----
(***************************************************************************)
(* Model of the spreadsheet comparison tool: the dataset helpers of        *)
(* src/src/utils/xlsx.ts (sortRows, areDatasetsEqual, diffDatasets) and    *)
(* the state of the App component of src/src/App.tsx (the two loaded       *)
(* sheets, the sort criteria, the type-check flag and the list of ignored  *)
(* cells) with its handlers. State that is only shown (the file names and  *)
(* the error message) is left out.                                         *)
(*                                                                         *)
(* A row (Record<string,string>) is a function from its keys to strings.   *)
(* A JavaScript array is a sequence; a[i] of the source is a[i+1] here,    *)
(* and the index field of a diff record keeps the source's 0-based value.  *)
(* An optional row (left?: Row) is a sequence of zero or one rows.         *)
(***************************************************************************)
EXTENDS Integers, Sequences, FiniteSets, Bags, TLC

(* ---------------------------------------------------------------------- *)
(* Bounds and the universe of cells                                        *)
(* ---------------------------------------------------------------------- *)

\* longest row sequences handed to the helpers in SpecFn: as the first
\* argument (the array sortRows sorts) and as the second
MaxRowsA == 3
MaxRowsB == 2

\* column names and cell strings of the rows handed to the helpers
FnKeys == {"x", "y"}
FnValues == {"", "a"}

\* the row without keys and every row of one key
FnRows == {<<>>} \cup UNION {[{k} -> FnValues] : k \in FnKeys}
FnDatasets(maxRows) == UNION {[1..n -> FnRows] : n \in 0..maxRows}

Directions == {"asc", "desc"}

(* ---------------------------------------------------------------------- *)
(* JavaScript primitives used by the helpers                               *)
(* ---------------------------------------------------------------------- *)

\* r[k] ?? '' : the value under k, the empty string when the key is absent
Get(r, k) == IF k \in DOMAIN r THEN r[k] ELSE ""

\* a[i] for a 0-based i: the row, or nothing (undefined) past the end
ArrayAt(a, i) == IF i >= 0 /\ i < Len(a) THEN <<a[i + 1]>> ELSE <<>>

\* d.left?.[h] ?? '' on an optional row
OptGet(o, h) == IF Len(o) = 0 THEN "" ELSE Get(o[1], h)

Max(m, n) == IF m >= n THEN m ELSE n

\* Position of a string in the collation order of the 'he' locale, for the
\* strings of the model: the empty string first, digits before letters,
\* letters alphabetically.
CollationRank(s) ==
    CASE s = "" -> 0
      [] s = "1" -> 1
      [] s = "2" -> 2
      [] s = "a" -> 3
      [] s = "b" -> 4
      [] s = "true" -> 5
      [] OTHER -> 6

\* String(av).localeCompare(String(bv), 'he'): negative, zero or positive
localeCompare(av, bv) ==
    IF CollationRank(av) < CollationRank(bv) THEN -1
    ELSE IF CollationRank(av) > CollationRank(bv) THEN 1
    ELSE 0

(* ---------------------------------------------------------------------- *)
(* src/src/utils/xlsx.ts                                                   *)
(* ---------------------------------------------------------------------- *)

\* the comparator passed to copy.sort in sortRows
sortRowsCompare(ra, rb, col, dir) ==
    LET cmp == localeCompare(Get(ra, col), Get(rb, col))
    IN  IF dir = "asc" THEN cmp ELSE -cmp

\* the elements of an array
Range(arr) == {arr[i] : i \in 1..Len(arr)}

\* an insertion that puts r before the elements it ties with
RECURSIVE sortInsertBeforeTies(_, _, _)
sortInsertBeforeTies(sorted, r, cmp) ==
    IF Len(sorted) = 0 THEN <<r>>
    ELSE IF cmp[<<Head(sorted), r>>] < 0
         THEN <<Head(sorted)>> \o sortInsertBeforeTies(Tail(sorted), r, cmp)
         ELSE <<r>> \o sorted

\* Array.prototype.sort(compareFn): a stable sort (ECMAScript 2019), here by
\* insertion: r goes after every element that does not compare greater than
\* it. cmp[<<p, q>>] is compareFn(p, q).
RECURSIVE sortInsert(_, _, _)
sortInsert(sorted, r, cmp) ==
    IF Len(sorted) = 0 THEN <<r>>
    ELSE IF cmp[<<Head(sorted), r>>] <= 0
         THEN <<Head(sorted)>> \o sortInsert(Tail(sorted), r, cmp)
         ELSE <<r>> \o sorted

RECURSIVE arraySort(_, _)
arraySort(arr, cmp) ==
    IF Len(arr) = 0 THEN <<>>
    ELSE sortInsert(arraySort(SubSeq(arr, 1, Len(arr) - 1), cmp), arr[Len(arr)], cmp)

\* sortRows sorting ascending and reversing the result for 'desc'
sortRowsReversedForDesc(rows, col, dir) ==
    LET asc == arraySort(rows, [p \in Range(rows) \X Range(rows) |->
                                  sortRowsCompare(p[1], p[2], col, "asc")])
    IN  IF dir = "asc" THEN asc
        ELSE [i \in 1..Len(asc) |-> asc[Len(asc) + 1 - i]]

\* the array sortRows sorts, ordered by its comparator
sortRowsSorted(rows, col, dir) ==
    arraySort(rows, [p \in Range(rows) \X Range(rows) |->
                        sortRowsCompare(p[1], p[2], col, dir)])

\* sortRows sorting the argument array in place and returning it
sortRowsInPlace(rows, col, dir) ==
    [rows |-> sortRowsSorted(rows, col, dir), copy |-> sortRowsSorted(rows, col, dir)]

\* sortRows(rows, column, direction): the argument array after the call
\* (rows) and the returned array (copy)
sortRowsCall(rows, col, dir) ==
    [rows |-> rows, copy |-> sortRowsSorted(rows, col, dir)]

sortRows(rows, col, dir) == sortRowsCall(rows, col, dir).copy

\* areDatasetsEqual(a, b)
areDatasetsEqual(a, b) ==
    IF Len(a) # Len(b) THEN FALSE
    ELSE \A i \in 1..Len(a) :
            /\ Cardinality(DOMAIN a[i]) = Cardinality(DOMAIN b[i])
            /\ \A k \in DOMAIN a[i] : Get(a[i], k) = Get(b[i], k)

\* diffDatasets comparing over the keys of the left row only
diffRowsEqualLeftKeys(l, r) ==
    \A k \in DOMAIN l : Get(l, k) = Get(r, k)

\* the body of the keys.forEach of diffDatasets: the final value of `equal`
diffRowsEqual(l, r) ==
    \A k \in (DOMAIN l) \cup (DOMAIN r) : Get(l, k) = Get(r, k)

\* the loop of diffDatasets running to a.length instead of max
RECURSIVE diffLoopToLeftLength(_, _, _, _)
diffLoopToLeftLength(a, b, i, diffs) ==
    IF i >= Len(a) THEN diffs
    ELSE LET l == ArrayAt(a, i)
             r == ArrayAt(b, i)
             d == [index |-> i, left |-> l, right |-> r]
         IN  IF Len(l) = 0 \/ Len(r) = 0
             THEN diffLoopToLeftLength(a, b, i + 1, Append(diffs, d))
             ELSE IF ~diffRowsEqual(l[1], r[1])
                  THEN diffLoopToLeftLength(a, b, i + 1, Append(diffs, d))
                  ELSE diffLoopToLeftLength(a, b, i + 1, diffs)

\* the loop of diffDatasets from position i on, diffs being the records so far
RECURSIVE diffLoop(_, _, _, _)
diffLoop(a, b, i, diffs) ==
    IF i >= Max(Len(a), Len(b)) THEN diffs
    ELSE LET l == ArrayAt(a, i)
             r == ArrayAt(b, i)
             d == [index |-> i, left |-> l, right |-> r]
         IN  IF Len(l) = 0 \/ Len(r) = 0
             THEN diffLoop(a, b, i + 1, Append(diffs, d))
             ELSE IF ~diffRowsEqual(l[1], r[1])
                  THEN diffLoop(a, b, i + 1, Append(diffs, d))
                  ELSE diffLoop(a, b, i + 1, diffs)

\* diffDatasets(a, b)
diffDatasets(a, b) == diffLoop(a, b, 0, <<>>)

(* ---------------------------------------------------------------------- *)
(* Helpers of ./utils/xlsx that App.tsx imports                            *)
(* ---------------------------------------------------------------------- *)

\* detectCellType(value): the coarse type of a cell string, for the strings
\* of the model
detectCellType(v) ==
    CASE v = "" -> "text"
      [] v \in {"true", "false"} -> "boolean"
      [] v \in {"1", "2"} -> "number"
      [] OTHER -> "text"

\* the comparator of sortRowsMulti: the first criterion on which the rows
\* differ decides, negated when descending; 0 when all criteria tie
RECURSIVE multiCompare(_, _, _)
multiCompare(ra, rb, criteria) ==
    IF Len(criteria) = 0 THEN 0
    ELSE LET c == Head(criteria)
             cmp == localeCompare(Get(ra, c.column), Get(rb, c.column))
         IN  IF cmp # 0
             THEN (IF c.direction = "asc" THEN cmp ELSE -cmp)
             ELSE multiCompare(ra, rb, Tail(criteria))

\* sortRowsMulti(rows, criteria): a stably sorted copy
sortRowsMulti(rows, criteria) ==
    arraySort(rows, [p \in Range(rows) \X Range(rows) |->
                        multiCompare(p[1], p[2], criteria)])

(* ---------------------------------------------------------------------- *)
(* src/src/App.tsx: state                                                  *)
(* ---------------------------------------------------------------------- *)

\* most handleFiles calls waiting for parseXlsxFile at one time
MaxInFlight == 1
\* most additional sort criteria
MaxMultiSort == 1
\* most entries of ignoredCellKeys
MaxIgnored == 1

\* useState(null) for left and right
NullSheet == [isNull |-> TRUE, headers |-> <<>>, rows |-> <<>>]

\* what parseXlsxFile returns: every row has exactly the keys of headers
Sheet(headers, rows) == [isNull |-> FALSE, headers |-> headers, rows |-> rows]

\* the files the user has at hand, as parseXlsxFile reads them
Files ==
    { Sheet(<<"x", "y">>, << [x |-> "a", y |-> "1"], [x |-> "b", y |-> ""] >>),
      Sheet(<<"x">>,      << [x |-> "b"] >>) }

VARIABLES
    left,             \* parsed left sheet or NullSheet
    right,            \* parsed right sheet or NullSheet
    column,           \* primary sort column, "" when none is chosen
    direction,        \* primary sort direction
    multiSort,        \* additional criteria: [column, direction]
    loading,
    enableTypeCheck,
    ignoredCellKeys,  \* array of "<index>:<header>" strings
    inFlight          \* bag of handleFiles calls suspended at await parseXlsxFile

appvars == <<left, right, column, direction, multiSort, loading,
             enableTypeCheck, ignoredCellKeys, inFlight>>

(* ---------------------------------------------------------------------- *)
(* src/src/App.tsx: values derived with useMemo                            *)
(* ---------------------------------------------------------------------- *)

\* the elements of arr followed by those of more not already present
RECURSIVE AddAll(_, _)
AddAll(arr, more) ==
    IF Len(more) = 0 THEN arr
    ELSE AddAll(IF Head(more) \in Range(arr) THEN arr ELSE Append(arr, Head(more)),
                Tail(more))

unifiedHeadersOf(l, r) == AddAll(AddAll(<<>>, l.headers), r.headers)

unifiedHeaders == unifiedHeadersOf(left, right)

activeCriteriaOf(col, dir, ms) ==
    LET base == IF col # "" THEN << [column |-> col, direction |-> dir] >> ELSE <<>>
    IN  base \o SelectSeq(ms, LAMBDA c :
                    c.column # "" /\ ~(\E i \in 1..Len(base) : base[i].column = c.column))

activeCriteria == activeCriteriaOf(column, direction, multiSort)

sortedOf(sheet, criteria) ==
    IF sheet.isNull THEN <<>>
    ELSE IF Len(criteria) > 0 THEN sortRowsMulti(sheet.rows, criteria)
    ELSE sheet.rows

sortedLeft == sortedOf(left, activeCriteria)
sortedRight == sortedOf(right, activeCriteria)

\* `equal`: "null" when nothing is compared, else the boolean
equal ==
    IF left.isNull \/ right.isNull \/ column = "" THEN "null"
    ELSE IF areDatasetsEqual(sortedLeft, sortedRight) THEN "true" ELSE "false"

differences ==
    IF left.isNull \/ right.isNull \/ column = "" THEN <<>>
    ELSE diffDatasets(sortedLeft, sortedRight)

\* `${d.index}:${h}`
cellKey(index, h) == ToString(index) \o ":" \o h

\* the cell test comparing the type of the left value with the right value
\* itself
cellDiffersTypeOfLeftOnly(d, h, typeCheck) ==
    LET lv == OptGet(d.left, h)
        rv == OptGet(d.right, h)
        valueDiffers == lv # rv
        typeMismatch == IF typeCheck THEN detectCellType(lv) # rv ELSE FALSE
    IN  valueDiffers \/ typeMismatch

\* the cell test with the type comparison replacing the value comparison
\* when type check is on
cellDiffersTypeInstead(d, h, typeCheck) ==
    LET lv == OptGet(d.left, h)
        rv == OptGet(d.right, h)
    IN  IF typeCheck THEN detectCellType(lv) # detectCellType(rv) ELSE lv # rv

\* the callback of unifiedHeaders.some in differencesForDisplay, without the
\* test of the ignored keys: the value or (with type check) the type differs
cellDiffers(d, h, typeCheck) ==
    LET lv == OptGet(d.left, h)
        rv == OptGet(d.right, h)
        valueDiffers == lv # rv
        typeMismatch == IF typeCheck THEN detectCellType(lv) # detectCellType(rv)
                        ELSE FALSE
    IN  valueDiffers \/ typeMismatch

\* the cell test with the negation of ignoredSet.has(key) left out
cellSignificantIfIgnored(d, h, typeCheck, ignored) ==
    cellDiffers(d, h, typeCheck) /\ cellKey(d.index, h) \in Range(ignored)

\* the callback of unifiedHeaders.some in differencesForDisplay
cellSignificant(d, h, typeCheck, ignored) ==
    cellDiffers(d, h, typeCheck) /\ cellKey(d.index, h) \notin Range(ignored)

\* the callback of differences.filter in differencesForDisplay
recordDisplayed(d, headers, typeCheck, ignored) ==
    \E i \in 1..Len(headers) : cellSignificant(d, headers[i], typeCheck, ignored)

displayOf(diffs, headers, typeCheck, ignored) ==
    SelectSeq(diffs, LAMBDA d : recordDisplayed(d, headers, typeCheck, ignored))

differencesForDisplay ==
    IF left.isNull \/ right.isNull \/ column = "" THEN <<>>
    ELSE displayOf(differences, unifiedHeaders, enableTypeCheck, ignoredCellKeys)

(* ---------------------------------------------------------------------- *)
(* The helpers called on arbitrary row sequences                           *)
(* ---------------------------------------------------------------------- *)

VARIABLES
    a,          \* first argument (for sortRows: the rows array)
    b,          \* second argument
    called,     \* the helper called last, "none" before any call
    argRows,    \* the rows array as it was when sortRows was called
    argColumn,  \* column and direction of the last sortRows call
    argDirection,
    retEqual,   \* result of areDatasetsEqual
    retDiffs,   \* result of diffDatasets
    retSorted   \* result of sortRows

fnvars == <<a, b, called, argRows, argColumn, argDirection, retEqual, retDiffs, retSorted>>

vars == <<appvars, fnvars>>

\* the App component as constructed
AppInit ==
    /\ left = NullSheet
    /\ right = NullSheet
    /\ column = ""
    /\ direction = "asc"
    /\ multiSort = <<>>
    /\ loading = FALSE
    /\ enableTypeCheck = FALSE
    /\ ignoredCellKeys = <<>>
    /\ inFlight = EmptyBag

(* ---------------------------------------------------------------------- *)
(* src/src/App.tsx: handlers                                               *)
(* ---------------------------------------------------------------------- *)

Sides == {"left", "right"}

RemoveAt(arr, i) == SubSeq(arr, 1, i - 1) \o SubSeq(arr, i + 1, Len(arr))

\* handleFiles up to `await parseXlsxFile(file)`; the call keeps `!column` of
\* the render it was created in
HandleFilesStart ==
    /\ BagCardinality(inFlight) < MaxInFlight
    /\ \E side \in Sides :
          inFlight' = inFlight (+) SetToBag({[side |-> side, noColumn |-> (column = "")]})
    /\ loading' = TRUE
    /\ UNCHANGED <<left, right, column, direction, multiSort, enableTypeCheck,
                   ignoredCellKeys>>
    /\ UNCHANGED fnvars

\* the state handleFiles leaves when parseXlsxFile resolves with parsed
handleFilesResolved(call, parsed) ==
    [left   |-> IF call.side = "left" THEN parsed ELSE left,
     right  |-> IF call.side = "left" THEN right ELSE parsed,
     column |-> IF call.noColumn /\ Len(parsed.headers) > 0
                THEN parsed.headers[1] ELSE column,
     ignoredCellKeys |-> ignoredCellKeys]

\* handleFiles after parseXlsxFile resolved: the try block and finally
HandleFilesResolve ==
    /\ \E call \in BagToSet(inFlight), parsed \in Files :
          LET res == handleFilesResolved(call, parsed)
          IN  /\ left' = res.left
              /\ right' = res.right
              /\ column' = res.column
              /\ ignoredCellKeys' = res.ignoredCellKeys
              /\ inFlight' = inFlight (-) SetToBag({call})
    /\ loading' = FALSE
    /\ UNCHANGED <<direction, multiSort, enableTypeCheck>>
    /\ UNCHANGED fnvars

\* handleFiles after parseXlsxFile rejected: the catch block (which only sets
\* the error message) and finally
HandleFilesReject ==
    /\ \E call \in BagToSet(inFlight) : inFlight' = inFlight (-) SetToBag({call})
    /\ loading' = FALSE
    /\ UNCHANGED <<left, right, column, direction, multiSort, enableTypeCheck,
                   ignoredCellKeys>>
    /\ UNCHANGED fnvars

\* the sort column select: setColumn(e.target.value)
SetColumn ==
    /\ Len(unifiedHeaders) > 0
    /\ \E h \in Range(unifiedHeaders) : h # column /\ column' = h
    /\ UNCHANGED <<left, right, direction, multiSort, loading,
                   enableTypeCheck, ignoredCellKeys, inFlight>>
    /\ UNCHANGED fnvars

\* the direction select: setDirection(e.target.value)
SetDirection ==
    /\ \E d \in Directions : d # direction /\ direction' = d
    /\ UNCHANGED <<left, right, column, multiSort, loading,
                   enableTypeCheck, ignoredCellKeys, inFlight>>
    /\ UNCHANGED fnvars

\* the "add sort field" button
AddMultiSort ==
    /\ Len(multiSort) < MaxMultiSort
    /\ multiSort' = Append(multiSort, [column |-> "", direction |-> "asc"])
    /\ UNCHANGED <<left, right, column, direction, loading,
                   enableTypeCheck, ignoredCellKeys, inFlight>>
    /\ UNCHANGED fnvars

\* the column select of an additional criterion; an option is disabled when
\* it is the primary column or the column of another criterion
SetMultiSortColumn ==
    /\ \E idx \in 1..Len(multiSort), h \in Range(unifiedHeaders) :
          /\ h # column
          /\ \A j \in 1..Len(multiSort) : j # idx => multiSort[j].column # h
          /\ h # multiSort[idx].column
          /\ multiSort' = [multiSort EXCEPT ![idx].column = h]
    /\ UNCHANGED <<left, right, column, direction, loading,
                   enableTypeCheck, ignoredCellKeys, inFlight>>
    /\ UNCHANGED fnvars

\* the direction select of an additional criterion
SetMultiSortDirection ==
    /\ \E idx \in 1..Len(multiSort), d \in Directions :
          /\ d # multiSort[idx].direction
          /\ multiSort' = [multiSort EXCEPT ![idx].direction = d]
    /\ UNCHANGED <<left, right, column, direction, loading,
                   enableTypeCheck, ignoredCellKeys, inFlight>>
    /\ UNCHANGED fnvars

\* the remove button of an additional criterion
RemoveMultiSort ==
    /\ \E idx \in 1..Len(multiSort) : multiSort' = RemoveAt(multiSort, idx)
    /\ UNCHANGED <<left, right, column, direction, loading,
                   enableTypeCheck, ignoredCellKeys, inFlight>>
    /\ UNCHANGED fnvars

\* the type check checkbox: setEnableTypeCheck(e.target.checked)
SetEnableTypeCheck ==
    /\ enableTypeCheck' = ~enableTypeCheck
    /\ UNCHANGED <<left, right, column, direction, multiSort, loading,
                   ignoredCellKeys, inFlight>>
    /\ UNCHANGED fnvars

\* toggleIgnoreCell adding the key whether or not it is present
toggleIgnoreCellAlwaysAdd(prev, rowIndex, header) ==
    Append(prev, cellKey(rowIndex, header))

\* the updater of toggleIgnoreCell(rowIndex, header) applied to prev
toggleIgnoreCell(prev, rowIndex, header) ==
    LET key == cellKey(rowIndex, header)
    IN  IF key \in Range(prev)
        THEN SelectSeq(prev, LAMBDA k : k # key)
        ELSE Append(prev, key)

\* the differences table is rendered
tableShown ==
    /\ ~left.isNull /\ ~right.isNull /\ column # "" /\ ~loading
    /\ equal # "true"
    /\ Len(differencesForDisplay) > 0

\* the button of a displayed cell whose value or type differs
ToggleIgnoreCell ==
    /\ tableShown
    /\ LET shown == differencesForDisplay
           headers == unifiedHeaders
       IN  \E i \in 1..Len(shown), j \in 1..Len(headers) :
              /\ cellDiffers(shown[i], headers[j], enableTypeCheck)
              /\ ignoredCellKeys' =
                    toggleIgnoreCell(ignoredCellKeys, shown[i].index, headers[j])
    /\ Len(ignoredCellKeys') <= MaxIgnored
    /\ UNCHANGED <<left, right, column, direction, multiSort, loading,
                   enableTypeCheck, inFlight>>
    /\ UNCHANGED fnvars

Next ==
    \/ HandleFilesStart
    \/ HandleFilesResolve
    \/ HandleFilesReject
    \/ SetColumn
    \/ SetDirection
    \/ AddMultiSort
    \/ SetMultiSortColumn
    \/ SetMultiSortDirection
    \/ RemoveMultiSort
    \/ SetEnableTypeCheck
    \/ ToggleIgnoreCell

\* no helper called yet
FnIdle ==
    /\ called = "none"
    /\ argRows = <<>>
    /\ argColumn = ""
    /\ argDirection = "asc"
    /\ retEqual = FALSE
    /\ retDiffs = <<>>
    /\ retSorted = <<>>

FnInit ==
    /\ AppInit
    /\ a \in FnDatasets(MaxRowsA)
    /\ b \in FnDatasets(MaxRowsB)
    /\ FnIdle

CallAreDatasetsEqual ==
    /\ called = "none"
    /\ called' = "areDatasetsEqual"
    /\ retEqual' = areDatasetsEqual(a, b)
    /\ UNCHANGED <<a, b, argRows, argColumn, argDirection, retDiffs, retSorted>>
    /\ UNCHANGED appvars

CallDiffDatasets ==
    /\ called = "none"
    /\ called' = "diffDatasets"
    /\ retDiffs' = diffDatasets(a, b)
    /\ UNCHANGED <<a, b, argRows, argColumn, argDirection, retEqual, retSorted>>
    /\ UNCHANGED appvars

CallSortRows ==
    /\ called = "none"
    /\ \E col \in FnKeys, dir \in Directions :
          LET res == sortRowsCall(a, col, dir)
          IN  /\ called' = "sortRows"
              /\ argRows' = a
              /\ argColumn' = col
              /\ argDirection' = dir
              /\ a' = res.rows
              /\ retSorted' = res.copy
    /\ UNCHANGED <<b, retEqual, retDiffs>>
    /\ UNCHANGED appvars

FnNext == CallAreDatasetsEqual \/ CallDiffDatasets \/ CallSortRows

SpecFn == FnInit /\ [][FnNext]_vars

Init ==
    /\ AppInit
    /\ a = <<>>
    /\ b = <<>>
    /\ FnIdle

Spec == Init /\ [][Next]_vars

(* ---------------------------------------------------------------------- *)
(* Properties                                                              *)
(* ---------------------------------------------------------------------- *)

Min(m, n) == IF m <= n THEN m ELSE n

\* number of positions of arr holding r
Count(arr, r) == Cardinality({i \in 1..Len(arr) : arr[i] = r})

\* sub can be obtained from arr by deleting elements
RECURSIVE IsSubList(_, _)
IsSubList(sub, arr) ==
    IF Len(sub) = 0 THEN TRUE
    ELSE IF Len(arr) = 0 THEN FALSE
    ELSE IF Head(sub) = Head(arr) THEN IsSubList(Tail(sub), Tail(arr))
    ELSE IsSubList(sub, Tail(arr))

\* the rows at 1-based position i agree on every key of either row, an
\* absent key read as the empty string
RowsAgree(ra, rb) ==
    \A k \in (DOMAIN ra) \cup (DOMAIN rb) :
        (IF k \in DOMAIN ra THEN ra[k] ELSE "") = (IF k \in DOMAIN rb THEN rb[k] ELSE "")

\* one side of the record has no row
RowPresenceMismatch(d) == Len(d.left) = 0 \/ Len(d.right) = 0

\* every Diff Key of the loaded sheets and the keys in the list
AllCellKeyPairs == (0..1) \X {"x", "y"}

\* C1: diffDatasets(a, b) is empty exactly when areDatasetsEqual(a, b) is true.
C1_DiffEmptyIffEqual ==
    called = "areDatasetsEqual" => (retEqual <=> Len(diffDatasets(a, b)) = 0)

\* C2: areDatasetsEqual(a, b) is true exactly when the lengths match and the
\* rows at every index agree on every key of either row (absent read as "").
C2_EqualIsStructural ==
    called = "areDatasetsEqual" =>
        (retEqual <=> /\ Len(a) = Len(b)
                      /\ \A i \in 1..Min(Len(a), Len(b)) : RowsAgree(a[i], b[i]))

\* C3: a record of differences with one side absent is in
\* differencesForDisplay, whatever the ignored keys, the type-check flag and
\* the content of the present row.
C3_PresenceMismatchShown ==
    \A i \in 1..Len(differences) :
        RowPresenceMismatch(differences[i]) =>
            differences[i] \in Range(differencesForDisplay)

\* C4: right after handleFiles has stored a parsed sheet, ignoredCellKeys is
\* empty.
C4_ReloadClearsIgnored ==
    [][HandleFilesResolve => ignoredCellKeys' = <<>>]_vars

C6_DiffRecordsOfRowPairs ==
    called = "diffDatasets" =>
        /\ \A i \in 0..(Min(Len(a), Len(b)) - 1) :
              /\ (\E j \in 1..Len(retDiffs) : retDiffs[j].index = i)
                    <=> ~RowsAgree(a[i + 1], b[i + 1])
              /\ \A j \in 1..Len(retDiffs) :
                    retDiffs[j].index = i =>
                        /\ retDiffs[j].left = <<a[i + 1]>>
                        /\ retDiffs[j].right = <<b[i + 1]>>
        /\ \A j \in 1..Len(retDiffs) :
              /\ retDiffs[j].index \in 0..(Max(Len(a), Len(b)) - 1)
              /\ j > 1 => retDiffs[j - 1].index < retDiffs[j].index

\* C6 witness: a call skipped position 0 and returned one record, of index
\* 1, carrying two rows with different key sets.
C6_Witness ==
    /\ called = "diffDatasets"
    /\ \E j \in 1..Len(retDiffs) :
          /\ Len(retDiffs[j].left) = 1 /\ Len(retDiffs[j].right) = 1
          /\ DOMAIN retDiffs[j].left[1] # DOMAIN retDiffs[j].right[1]
          /\ retDiffs[j].index = 1
    /\ Len(retDiffs) = 1

\* C7: when the lengths differ, every index from the shorter length up to
\* the longer has exactly one record, holding the row of the longer array on
\* its side and nothing on the other.
C7_OneRecordPerMissingRow ==
    (called = "diffDatasets" /\ Len(a) # Len(b)) =>
        \A i \in Min(Len(a), Len(b))..(Max(Len(a), Len(b)) - 1) :
            /\ Cardinality({j \in 1..Len(retDiffs) : retDiffs[j].index = i}) = 1
            /\ \A j \in 1..Len(retDiffs) :
                  retDiffs[j].index = i =>
                      IF Len(a) > Len(b)
                      THEN retDiffs[j].left = <<a[i + 1]>> /\ retDiffs[j].right = <<>>
                      ELSE retDiffs[j].left = <<>> /\ retDiffs[j].right = <<b[i + 1]>>

\* C7 witness: a call with b two rows longer than a returned two records
\* with only the right side.
C7_Witness ==
    /\ called = "diffDatasets"
    /\ Len(b) = Len(a) + 2
    /\ Len(retDiffs) >= 2
    /\ Len(retDiffs[Len(retDiffs)].left) = 0
    /\ Len(retDiffs[Len(retDiffs)].right) = 1

\* C8: toggleIgnoreCell flips the membership of its key and of no other key,
\* and toggling the same key twice gives back the same set of ignored keys
\* and the same differencesForDisplay.
C8_ToggleFlipsOneKey ==
    LET diffs == differences
        headers == unifiedHeaders
    IN  \A p \in AllCellKeyPairs :
            LET key == cellKey(p[1], p[2])
                once == toggleIgnoreCell(ignoredCellKeys, p[1], p[2])
                twice == toggleIgnoreCell(once, p[1], p[2])
            IN  /\ (key \in Range(once)) <=> (key \notin Range(ignoredCellKeys))
                /\ Range(once) \ {key} = Range(ignoredCellKeys) \ {key}
                /\ Range(twice) = Range(ignoredCellKeys)
                /\ displayOf(diffs, headers, enableTypeCheck, twice)
                     = displayOf(diffs, headers, enableTypeCheck, ignoredCellKeys)

\* C8 witness: a key is ignored, and toggling it off would bring a record
\* back into differencesForDisplay.
C8_Witness ==
    \E j \in 1..Len(ignoredCellKeys), p \in AllCellKeyPairs :
        /\ ignoredCellKeys[j] = cellKey(p[1], p[2])
        /\ Len(displayOf(differences, unifiedHeaders, enableTypeCheck,
                         toggleIgnoreCell(ignoredCellKeys, p[1], p[2])))
             > Len(differencesForDisplay)

\* C9: adding a key that is not ignored never adds a record: in every state
\* (whatever the records, the type-check flag and the ignored keys) the list
\* with the key added is a sub-list of the list without it.
C9_SuppressionMonotone ==
    LET diffs == differences
        headers == unifiedHeaders
    IN  \A p \in AllCellKeyPairs :
            cellKey(p[1], p[2]) \notin Range(ignoredCellKeys) =>
                IsSubList(displayOf(diffs, headers, enableTypeCheck,
                                    Append(ignoredCellKeys, cellKey(p[1], p[2]))),
                          displayOf(diffs, headers, enableTypeCheck, ignoredCellKeys))

\* C9 witness: a key was added by a toggle and a record left
\* differencesForDisplay through it, while another record stayed.
C9_Witness ==
    /\ Len(ignoredCellKeys) > 0
    /\ Len(differencesForDisplay) > 0
    /\ Len(differencesForDisplay)
         < Len(displayOf(differences, unifiedHeaders, enableTypeCheck,
                         SubSeq(ignoredCellKeys, 1, Len(ignoredCellKeys) - 1)))

\* C10: sortRows leaves its argument array as it was and returns an array of
\* the same length holding every row as many times as the argument does.
C10_SortRowsPureAndPermutes ==
    called = "sortRows" =>
        /\ a = argRows
        /\ Len(retSorted) = Len(argRows)
        /\ \A r \in Range(argRows) \cup Range(retSorted) :
              Count(retSorted, r) = Count(argRows, r)

\* C10 witness: a descending call on an argument that holds the same row
\* twice returned an array ordered differently from the argument.
C10_Witness ==
    /\ called = "sortRows"
    /\ argDirection = "desc"
    /\ retSorted # argRows
    /\ \E i \in 1..Len(argRows), j \in 1..Len(argRows) :
          i # j /\ argRows[i] = argRows[j]
    /\ a = argRows

\* the rows of arr whose value under col compares equal to v, in the order
\* of arr
TieClass(arr, col, v) ==
    SelectSeq(arr, LAMBDA r :
        localeCompare(IF col \in DOMAIN r THEN r[col] ELSE "", v) = 0)

\* C11: sortRows is stable in both directions: the rows whose values under
\* the sort column compare equal (absent read as "") come out in the order
\* they had in the argument, ascending and descending alike.
C11_SortRowsStable ==
    called = "sortRows" =>
        \A v \in FnValues :
            TieClass(retSorted, argColumn, v) = TieClass(argRows, argColumn, v)

\* C11 witness: a descending call moved a row to the front past two
\* different rows that tie under the sort column.
C11_Witness ==
    /\ called = "sortRows"
    /\ argDirection = "desc"
    /\ Len(argRows) = 3
    /\ argRows[1] # argRows[2]
    /\ localeCompare(Get(argRows[1], argColumn), Get(argRows[2], argColumn)) = 0
    /\ retSorted = <<argRows[3], argRows[1], argRows[2]>>

\* C12: sorting is idempotent: sorting the array a sortRows call returned
\* again, by the same column and direction, returns that array element by
\* element.
C12_SortRowsIdempotent ==
    called = "sortRows" =>
        LET again == sortRows(retSorted, argColumn, argDirection)
        IN  /\ Len(again) = Len(retSorted)
            /\ \A i \in 1..Len(retSorted) : again[i] = retSorted[i]

\* C12 witness: a call reordered an argument of three rows, two of them
\* different rows that tie under the sort column.
C12_Witness ==
    /\ called = "sortRows"
    /\ Len(argRows) = 3
    /\ retSorted # argRows
    /\ \E i \in 1..3, j \in 1..3 :
          /\ argRows[i] # argRows[j]
          /\ localeCompare(Get(argRows[i], argColumn), Get(argRows[j], argColumn)) = 0

\* C13: the type-check flag never changes the result: whatever the loaded
\* sheets, the sort criteria and the ignored keys, the list displayed with
\* type check on equals the list displayed with it off.
C13_TypeCheckChangesNothing ==
    LET diffs == differences
        headers == unifiedHeaders
    IN  displayOf(diffs, headers, TRUE, ignoredCellKeys)
          = displayOf(diffs, headers, FALSE, ignoredCellKeys)

\* C13 witness: with type check on and a key ignored, a displayed record has
\* an unignored cell whose two values are of different types, and a record
\* of differences is not displayed.
C13_Witness ==
    /\ enableTypeCheck
    /\ Len(ignoredCellKeys) > 0
    /\ Len(differencesForDisplay) < Len(differences)
    /\ \E i \in 1..Len(differencesForDisplay), h \in Range(unifiedHeaders) :
          LET d == differencesForDisplay[i]
          IN  /\ cellKey(d.index, h) \notin Range(ignoredCellKeys)
              /\ detectCellType(OptGet(d.left, h)) # detectCellType(OptGet(d.right, h))

====
